---- MODULE Spec2Model ----
(***************************************************************************)
(* Guest bootstrap process of libkrun (src/init/init.c): main() and the    *)
(* resource-limit parser set_rlimits().                                    *)
(*                                                                         *)
(* Strings are sequences of one-character strings; NUL is the terminator.  *)
(* The memory that follows the terminator of KRUN_RLIMITS is not known to  *)
(* the program: a read past the terminator is undefined behaviour and is   *)
(* modelled as a nondeterministic choice between a fault (SIGSEGV) and any *)
(* bytes of TailBytes being there (at most MaxTail of them are mapped).    *)
(*                                                                         *)
(* TLC's integers are 32 bits wide, so the 64-bit unsigned long long is    *)
(* scaled to WordBits bits and the 32-bit int to IntBits bits; every       *)
(* numeral of the inputs is read in decimal exactly as strtoull reads it.  *)
(***************************************************************************)
EXTENDS Integers, Sequences, FiniteSets, TLC

\* ---------------------------------------------------------------- bounds
WordBits == 16      \* width of unsigned long long in the model
IntBits  == 8       \* width of int in the model
MaxTail  == 2       \* mapped bytes after the terminator of KRUN_RLIMITS
MaxDirs  == 2       \* directives in a generated well-formed string

ULLONG_MAX == 2^WordBits - 1
INT_MAX    == 2^(IntBits - 1) - 1

NUL  == "NUL"
\* the null pointer; every string value is a sequence, so NULL is one too
NULL == <<"NULL">>

DEFAULT_KRUN_INIT == <<"/iwasm">>

\* ------------------------------------------------------------ characters
Digits == {"0", "1", "2", "3", "4", "5", "6", "7", "8", "9"}

DigitVal == [c \in Digits |->
               CASE c = "0" -> 0 [] c = "1" -> 1 [] c = "2" -> 2
                 [] c = "3" -> 3 [] c = "4" -> 4 [] c = "5" -> 5
                 [] c = "6" -> 6 [] c = "7" -> 7 [] c = "8" -> 8
                 [] c = "9" -> 9]

\* isspace() in the C locale
SpaceChars == {" ", "\t", "\n", "\r"}

\* ---------------------------------------------------------------- strtoull
Fault == [val |-> 0, end |-> 0, last |-> 0, fault |-> TRUE]

RECURSIVE SkipWs(_, _)
SkipWs(m, i) ==
    IF i > Len(m) THEN i
    ELSE IF m[i] \in SpaceChars THEN SkipWs(m, i + 1) ELSE i

\* Accumulates the digits from position i; a value above ULLONG_MAX
\* saturates (ERANGE) and the remaining digits are still consumed.
RECURSIVE ScanDigits(_, _, _, _)
ScanDigits(m, i, acc, ovf) ==
    IF i > Len(m) THEN [end |-> i, acc |-> acc, ovf |-> ovf, fault |-> TRUE]
    ELSE IF m[i] \in Digits
         THEN LET v == acc * 10 + DigitVal[m[i]]
              IN  IF ovf \/ v > ULLONG_MAX
                  THEN ScanDigits(m, i + 1, ULLONG_MAX, TRUE)
                  ELSE ScanDigits(m, i + 1, v, FALSE)
         ELSE [end |-> i, acc |-> acc, ovf |-> ovf, fault |-> FALSE]

\* strtoull(&m[p], &end, 10): val is the result, end the new read position,
\* last the highest index read, fault a read outside the mapped memory m.
strtoull(m, p) ==
    LET s == SkipWs(m, p) IN
    IF s > Len(m) THEN Fault
    ELSE LET neg == (m[s] = "-")
             d   == IF m[s] \in {"-", "+"} THEN s + 1 ELSE s
         IN  IF d > Len(m) THEN Fault
             ELSE IF m[d] \notin Digits
                  THEN [val |-> 0, end |-> p, last |-> d, fault |-> FALSE]
                  ELSE LET r == ScanDigits(m, d, 0, FALSE) IN
                       IF r.fault THEN Fault
                       ELSE [val   |-> IF r.ovf THEN ULLONG_MAX
                                       ELSE IF neg
                                            THEN (2^WordBits - r.acc) % 2^WordBits
                                            ELSE r.acc,
                             end   |-> r.end,
                             last  |-> r.end,
                             fault |-> FALSE]

\* conversion of the unsigned long long lim_id to the int parameter of
\* setrlimit, and to the long long printed by %lld
ToInt(v) ==
    LET t == v % 2^IntBits
    IN  IF t > INT_MAX THEN t - 2^IntBits ELSE t

ToLongLong(v) ==
    IF v >= 2^(WordBits - 1) THEN v - 2^WordBits ELSE v

\* exit(status): the parent sees status & 0377
ExitCode(status) == status % 256

\* ------------------------------------------------------------ memory
TailBytes == {"1", ";", NUL}

TailSeqs == UNION {[1..n -> TailBytes] : n \in 0..MaxTail}

RECURSIVE StrEnd(_, _)
StrEnd(m, i) == IF i > Len(m) \/ m[i] = NUL THEN i ELSE StrEnd(m, i + 1)

\* the bytes that may turn out to follow the memory read so far
Extensions(m) ==
    {e \in TailSeqs : Len(m) + Len(e) <= StrEnd(m, 1) + MaxTail}

\* ------------------------------------------------------------ inputs
Dir(id, cur, max) == id \o <<"=">> \o cur \o <<":">> \o max

N6    == <<"6">>
N7    == <<"7">>
N10   == <<"1", "0">>
N20   == <<"2", "0">>
N4096 == <<"4", "0", "9", "6">>
N8192 == <<"8", "1", "9", "2">>

\* the directives of well-formed strings; "6=4096:8192" is the one the
\* host launcher configures
Directives ==
    {Dir(id, lim[1], lim[2]) : id \in {N6, N7},
                               lim \in {<<N4096, N8192>>, <<N10, N20>>}}

RECURSIVE Join(_)
Join(ds) ==
    IF Len(ds) = 1 THEN ds[1] ELSE ds[1] \o <<";">> \o Join(Tail(ds))

WellFormedInputs ==
    {Join(ds) : ds \in UNION {[1..n -> Directives] : n \in 1..MaxDirs}}

D1 == Dir(N6, N4096, N8192)
D2 == Dir(N7, N10, N20)

MalformedInputs ==
    { <<>>,                                          \* ""
      N6 \o <<"=">> \o N4096,                        \* "6=4096"
      N6 \o <<"=">> \o N4096 \o <<":">>,             \* "6=4096:"
      <<"x", "=", "1", ":", "2">>,                   \* "x=1:2"
      <<"=", "1", ":", "2">>,                        \* "=1:2"
      D1 \o <<";">>,                                 \* "6=4096:8192;"
      D1 \o <<";", "x", "=", "1", ":", "2">>,        \* "6=4096:8192;x=1:2"
      D1 \o <<";", "x", "=", "1", ":", "2", ";">> \o D2,
      <<"-", "1", "=", "1", ":", "2">>,              \* "-1=1:2"
      D1 \o <<";", "-", "1", "=", "1", ":", "2">>,   \* "6=4096:8192;-1=1:2"
      D1 \o <<";", "-", "1", "=", "1", ":", "2", ";">> \o D2,
      <<"9", "9", "9", "9", "9", "9", "=", "1", ":", "2">> \o <<";">> \o D2,
      <<" ", "6", "=", "+", "1", "0", ":", " ", "2", "0">> }

\* the decimal numeral of n
RECURSIVE Numeral(_)
Numeral(n) ==
    LET d == CHOOSE c \in Digits : DigitVal[c] = n % 10
    IN  IF n < 10 THEN <<d>> ELSE Numeral(n \div 10) \o <<d>>

\* directives whose limits are the largest unsigned long long ("unbounded")
\* or just below it
MaxValueInputs ==
    {Dir(N6, Numeral(c), Numeral(m)) :
        c \in {10, ULLONG_MAX - 1, ULLONG_MAX}, m \in {ULLONG_MAX - 1, ULLONG_MAX}}
    \cup {D1 \o <<";">> \o Dir(N7, Numeral(ULLONG_MAX), Numeral(ULLONG_MAX))}

RlimitInputs == WellFormedInputs \cup MalformedInputs \cup MaxValueInputs

\* values of KRUN_RLIMITS in the runs of main
MainRlimits ==
    { D1, D1 \o <<";">> \o D2,
      N6 \o <<"=">> \o N4096,
      <<"x", "=", "1", ":", "2">>,
      D1 \o <<";", "-", "1", "=", "1", ":", "2", ";">> \o D2 }

\* paths that name no executable file in the guest
MissingPaths == {<<"/nonexistent">>}

\* argv[0..argc] as main receives it: argv[argc] is the null pointer
ArgVectors == { << <<"/init.krun">>, NULL >>,
                << <<"/init.krun">>, <<"hello.wasm">>, <<"-v">>, NULL >> }

\* the guest bootstrap (init.c)
VARIABLES pc, env, argv, mem, item, lim_id, lim_cur, lim_max,
          calls, stdout, stderr, sockfd, openFds, exitStatus, limits

\* the host launcher (chroot_vm.c); h-prefixed where init.c has the name
VARIABLES hpc, hargv, err, ctx_id, errno, current_path, volume,
          hcalls, hstdout, hstderr, hret

gvars == <<pc, env, argv, mem, item, lim_id, lim_cur, lim_max,
           calls, stdout, stderr, sockfd, openFds, exitStatus, limits>>

hvars == <<hpc, hargv, err, ctx_id, errno, current_path, volume,
           hcalls, hstdout, hstderr, hret>>

vars == <<gvars, hvars>>

\* the launcher is not part of a run of the guest, and the other way round
HostOff ==
    /\ hpc = "off"
    /\ hargv = <<NULL>>
    /\ err = 0 /\ ctx_id = 0 /\ errno = 0
    /\ current_path = <<>>
    /\ volume = NULL
    /\ hcalls = <<>> /\ hstdout = <<>> /\ hstderr = <<>>
    /\ hret = 0

GuestOff ==
    /\ pc = "off"
    /\ env = [HOSTNAME |-> NULL, KRUN_RLIMITS |-> NULL,
              KRUN_WORKDIR |-> NULL, KRUN_INIT |-> NULL]
    /\ argv = <<NULL>>
    /\ mem = <<>>
    /\ item = 0
    /\ lim_id = -1 /\ lim_cur = -1 /\ lim_max = -1
    /\ calls = <<>> /\ stdout = <<>> /\ stderr = <<>>
    /\ sockfd = -1
    /\ openFds = {0, 1, 2}
    /\ exitStatus = -1
    /\ limits = <<>>

rlvars == <<mem, item, lim_id, lim_cur, lim_max>>

Call(op, args, ok) == [op |-> op, args |-> args, ok |-> ok]

Init ==
    /\ pc = "mount"
    /\ env \in [HOSTNAME     : {NULL, <<"guest">>},
                KRUN_RLIMITS : {NULL} \cup MainRlimits,
                KRUN_WORKDIR : {NULL, <<"/work">>},
                KRUN_INIT    : {NULL, <<"/nonexistent">>, <<"/bin/true">>}]
    /\ argv \in ArgVectors
    /\ mem = <<>>
    /\ item = 0
    /\ lim_id = -1 /\ lim_cur = -1 /\ lim_max = -1
    /\ calls = <<>>
    /\ stdout = <<>>
    /\ stderr = <<>>
    /\ sockfd = -1
    /\ openFds = {0, 1, 2}
    /\ exitStatus = -1
    /\ limits = <<>>
    /\ HostOff

\* ------------------------------------------------------------ main()
\* MountProc without the exit(-1) of init.c:72
MountProc_NoExit ==
    /\ pc = "mount"
    /\ \E ok \in BOOLEAN :
         /\ calls' = Append(calls, Call("mount", <<"proc", "/proc", "proc">>, ok))
         /\ stderr' = IF ok THEN stderr ELSE Append(stderr, "mount(/proc)")
         /\ pc' = "symlink"
    /\ UNCHANGED <<env, argv, rlvars, stdout, sockfd, openFds, exitStatus, limits>>
    /\ UNCHANGED hvars

\* init.c:69-73
MountProc ==
    /\ pc = "mount"
    /\ \E ok \in BOOLEAN :
         /\ calls' = Append(calls, Call("mount", <<"proc", "/proc", "proc">>, ok))
         /\ IF ok
            THEN /\ pc' = "symlink"
                 /\ UNCHANGED <<stderr, exitStatus>>
            ELSE /\ stderr' = Append(stderr, "mount(/proc)")
                 /\ exitStatus' = ExitCode(-1)
                 /\ pc' = "exited"
    /\ UNCHANGED <<env, argv, rlvars, stdout, sockfd, openFds, limits>>
    /\ UNCHANGED hvars

\* init.c:77
Symlink ==
    /\ pc = "symlink"
    /\ \E ok \in BOOLEAN :
         calls' = Append(calls, Call("symlink", <<"/proc/self/fd", "/dev/fd">>, ok))
    /\ pc' = "hostname"
    /\ UNCHANGED <<env, argv, rlvars, stdout, stderr, sockfd, openFds,
                   exitStatus, limits>>
    /\ UNCHANGED hvars

\* SetHostname with setsid() moved in front of the sethostname() call
SetHostname_AfterSetsid ==
    /\ pc = "hostname"
    /\ \E ok1, ok2 \in BOOLEAN :
         calls' = calls \o <<Call("setsid", <<>>, ok1)>> \o
                  (IF env.HOSTNAME # NULL
                   THEN <<Call("sethostname", <<env.HOSTNAME, Len(env.HOSTNAME)>>, ok2)>>
                   ELSE <<>>)
    /\ pc' = "tiocsctty"
    /\ UNCHANGED <<env, argv, rlvars, stdout, stderr, sockfd, openFds,
                   exitStatus, limits>>
    /\ UNCHANGED hvars

\* init.c:79-82
SetHostname ==
    /\ pc = "hostname"
    /\ IF env.HOSTNAME # NULL
       THEN \E ok \in BOOLEAN :
              calls' = Append(calls, Call("sethostname", <<env.HOSTNAME, Len(env.HOSTNAME)>>, ok))
       ELSE UNCHANGED calls
    /\ pc' = "setsid"
    /\ UNCHANGED <<env, argv, rlvars, stdout, stderr, sockfd, openFds,
                   exitStatus, limits>>
    /\ UNCHANGED hvars

\* init.c:84
Setsid ==
    /\ pc = "setsid"
    /\ \E ok \in BOOLEAN : calls' = Append(calls, Call("setsid", <<>>, ok))
    /\ pc' = "tiocsctty"
    /\ UNCHANGED <<env, argv, rlvars, stdout, stderr, sockfd, openFds,
                   exitStatus, limits>>
    /\ UNCHANGED hvars

\* init.c:85
IoctlTiocsctty ==
    /\ pc = "tiocsctty"
    /\ \E ok \in BOOLEAN :
         calls' = Append(calls, Call("ioctl", <<0, "TIOCSCTTY", 1>>, ok))
    /\ pc' = "socket"
    /\ UNCHANGED <<env, argv, rlvars, stdout, stderr, sockfd, openFds,
                   exitStatus, limits>>
    /\ UNCHANGED hvars

\* the lowest descriptor that is not open
LowestFd(fds) == CHOOSE n \in 0..Cardinality(fds) :
                    n \notin fds /\ \A k \in 0..(n - 1) : k \in fds

\* init.c:87-88
Socket ==
    /\ pc = "socket"
    /\ \E ok \in BOOLEAN :
         /\ calls' = Append(calls, Call("socket", <<"AF_INET", "SOCK_DGRAM", 0>>, ok))
         /\ IF ok
            THEN /\ sockfd' = LowestFd(openFds)
                 /\ openFds' = openFds \cup {LowestFd(openFds)}
                 /\ pc' = "siocsifflags"
            ELSE /\ sockfd' = -1
                 /\ openFds' = openFds
                 /\ pc' = "rlimits"
    /\ UNCHANGED <<env, argv, rlvars, stdout, stderr, exitStatus, limits>>
    /\ UNCHANGED hvars

\* IoctlSiocsifflags leaving the socket open when the request fails
IoctlSiocsifflags_LeakOnError ==
    /\ pc = "siocsifflags"
    /\ \E ok \in BOOLEAN :
         /\ calls' = Append(calls, Call("ioctl", <<sockfd, "SIOCSIFFLAGS", "lo">>, ok))
         /\ pc' = IF ok THEN "close" ELSE "rlimits"
    /\ UNCHANGED <<env, argv, rlvars, stdout, stderr, sockfd, openFds,
                   exitStatus, limits>>
    /\ UNCHANGED hvars

\* init.c:89-92
IoctlSiocsifflags ==
    /\ pc = "siocsifflags"
    /\ \E ok \in BOOLEAN :
         calls' = Append(calls, Call("ioctl", <<sockfd, "SIOCSIFFLAGS", "lo">>, ok))
    /\ pc' = "close"
    /\ UNCHANGED <<env, argv, rlvars, stdout, stderr, sockfd, openFds,
                   exitStatus, limits>>
    /\ UNCHANGED hvars

\* init.c:93
CloseSocket ==
    /\ pc = "close"
    /\ calls' = Append(calls, Call("close", <<sockfd>>, sockfd \in openFds))
    /\ openFds' = openFds \ {sockfd}
    /\ pc' = "rlimits"
    /\ UNCHANGED <<env, argv, rlvars, stdout, stderr, sockfd, exitStatus, limits>>
    /\ UNCHANGED hvars

\* init.c:96-98 and the entry of set_rlimits, init.c:25
GetRlimits ==
    /\ pc = "rlimits"
    /\ IF env.KRUN_RLIMITS # NULL
       THEN /\ mem' = env.KRUN_RLIMITS \o <<NUL>>
            /\ item' = 1
            /\ pc' = "rl_loop"
       ELSE /\ pc' = "workdir"
            /\ UNCHANGED <<mem, item>>
    /\ UNCHANGED <<env, argv, lim_id, lim_cur, lim_max, calls, stdout, stderr,
                   sockfd, openFds, exitStatus, limits>>
    /\ UNCHANGED hvars

\* Chdir guarded by the rlimits pointer instead of the workdir pointer
Chdir_GuardedByRlimits ==
    /\ pc = "workdir"
    /\ IF env.KRUN_RLIMITS # NULL
       THEN \E ok \in BOOLEAN :
              calls' = Append(calls, Call("chdir", <<env.KRUN_WORKDIR>>, ok))
       ELSE UNCHANGED calls
    /\ pc' = "exec"
    /\ UNCHANGED <<env, argv, rlvars, stdout, stderr, sockfd, openFds,
                   exitStatus, limits>>
    /\ UNCHANGED hvars

\* init.c:101-104
Chdir ==
    /\ pc = "workdir"
    /\ IF env.KRUN_WORKDIR # NULL
       THEN \E ok \in BOOLEAN :
              calls' = Append(calls, Call("chdir", <<env.KRUN_WORKDIR>>, ok))
       ELSE UNCHANGED calls
    /\ pc' = "exec"
    /\ UNCHANGED <<env, argv, rlvars, stdout, stderr, sockfd, openFds,
                   exitStatus, limits>>
    /\ UNCHANGED hvars

\* Execv handing execv a vector rebuilt from the path alone
Execv_DropsArguments ==
    /\ pc = "exec"
    /\ LET krun_init == IF env.KRUN_INIT = NULL THEN DEFAULT_KRUN_INIT
                        ELSE env.KRUN_INIT
       IN  /\ argv' = <<krun_init, NULL>>
           /\ \E ok \in (IF krun_init \in MissingPaths THEN {FALSE} ELSE BOOLEAN) :
                /\ calls' = Append(calls, Call("execv", <<krun_init, argv'>>, ok))
                /\ pc' = IF ok THEN "execed" ELSE "return"
    /\ UNCHANGED <<env, rlvars, stdout, stderr, sockfd, openFds, exitStatus, limits>>
    /\ UNCHANGED hvars

\* init.c:107-113
Execv ==
    /\ pc = "exec"
    /\ LET krun_init == IF env.KRUN_INIT = NULL THEN DEFAULT_KRUN_INIT
                        ELSE env.KRUN_INIT
       IN  /\ argv' = [argv EXCEPT ![1] = krun_init]
           /\ \E ok \in (IF krun_init \in MissingPaths THEN {FALSE} ELSE BOOLEAN) :
                /\ calls' = Append(calls, Call("execv", <<krun_init, argv'>>, ok))
                /\ pc' = IF ok THEN "execed" ELSE "return"
    /\ UNCHANGED <<env, rlvars, stdout, stderr, sockfd, openFds, exitStatus, limits>>
    /\ UNCHANGED hvars

\* init.c:115
MainReturn ==
    /\ pc = "return"
    /\ exitStatus' = ExitCode(0)
    /\ pc' = "exited"
    /\ UNCHANGED <<env, argv, rlvars, calls, stdout, stderr, sockfd, openFds, limits>>
    /\ UNCHANGED hvars

\* ------------------------------------------------------------ set_rlimits()
\* A strtoull call at the read position, storing into lim_id, lim_cur or
\* lim_max: the memory past what has been read so far turns out to hold the
\* bytes ext, or the read faults.  init.c:28 resets all three before the id
\* is read.
Parse(next, field) ==
    \E ext \in Extensions(mem) :
       LET m == mem \o ext
           r == strtoull(m, item)
       IN  IF r.fault
           THEN /\ pc' = "crashed"
                /\ mem' = m
                /\ UNCHANGED <<item, lim_id, lim_cur, lim_max>>
           ELSE /\ (ext = <<>> \/ r.last = Len(m))
                /\ mem' = m
                /\ item' = r.end
                /\ pc' = next
                /\ lim_id'  = IF field = "lim_id" THEN r.val ELSE lim_id
                /\ lim_cur' = CASE field = "lim_id"  -> ULLONG_MAX
                                [] field = "lim_cur" -> r.val
                                [] OTHER             -> lim_cur
                /\ lim_max' = CASE field = "lim_id"  -> ULLONG_MAX
                                [] field = "lim_max" -> r.val
                                [] OTHER             -> lim_max

\* init.c:28-30
RlParseId ==
    /\ pc = "rl_loop"
    /\ Parse("rl_check_id", "lim_id")
    /\ UNCHANGED <<env, argv, calls, stdout, stderr, sockfd, openFds,
                   exitStatus, limits>>
    /\ UNCHANGED hvars

\* RlCheckId without the break of init.c:33
RlCheckId_NoBreak ==
    /\ pc = "rl_check_id"
    /\ stdout' = IF lim_id = ULLONG_MAX
                 THEN Append(stdout, [msg |-> "Invalid rlimit ID", id |-> 0])
                 ELSE stdout
    /\ pc' = "rl_skip_eq"
    /\ UNCHANGED <<env, argv, rlvars, calls, stderr, sockfd, openFds,
                   exitStatus, limits>>
    /\ UNCHANGED hvars

\* init.c:31-34
RlCheckId ==
    /\ pc = "rl_check_id"
    /\ IF lim_id = ULLONG_MAX
       THEN /\ stdout' = Append(stdout, [msg |-> "Invalid rlimit ID", id |-> 0])
            /\ pc' = "workdir"
       ELSE /\ pc' = "rl_skip_eq"
            /\ UNCHANGED stdout
    /\ UNCHANGED <<env, argv, rlvars, calls, stderr, sockfd, openFds,
                   exitStatus, limits>>
    /\ UNCHANGED hvars

\* init.c:36
RlSkipEq ==
    /\ pc = "rl_skip_eq"
    /\ item' = item + 1
    /\ pc' = "rl_cur"
    /\ UNCHANGED <<env, argv, mem, lim_id, lim_cur, lim_max, calls, stdout,
                   stderr, sockfd, openFds, exitStatus, limits>>
    /\ UNCHANGED hvars

\* init.c:37
RlParseCur ==
    /\ pc = "rl_cur"
    /\ Parse("rl_skip_colon", "lim_cur")
    /\ UNCHANGED <<env, argv, calls, stdout, stderr, sockfd, openFds,
                   exitStatus, limits>>
    /\ UNCHANGED hvars

\* RlSkipColon without the item++ of init.c:38
RlSkipColon_NoAdvance ==
    /\ pc = "rl_skip_colon"
    /\ pc' = "rl_max"
    /\ UNCHANGED <<env, argv, rlvars, calls, stdout, stderr, sockfd, openFds,
                   exitStatus, limits>>
    /\ UNCHANGED hvars

\* init.c:38
RlSkipColon ==
    /\ pc = "rl_skip_colon"
    /\ item' = item + 1
    /\ pc' = "rl_max"
    /\ UNCHANGED <<env, argv, mem, lim_id, lim_cur, lim_max, calls, stdout,
                   stderr, sockfd, openFds, exitStatus, limits>>
    /\ UNCHANGED hvars

\* init.c:39
RlParseMax ==
    /\ pc = "rl_max"
    /\ Parse("rl_setrlimit", "lim_max")
    /\ UNCHANGED <<env, argv, calls, stdout, stderr, sockfd, openFds,
                   exitStatus, limits>>
    /\ UNCHANGED hvars

\* RlSetrlimit leaving the loop when setrlimit fails
RlSetrlimit_BreakOnError ==
    /\ pc = "rl_setrlimit"
    /\ \E ok \in BOOLEAN :
         /\ calls' = Append(calls,
                            Call("setrlimit", <<ToInt(lim_id), lim_cur, lim_max>>, ok))
         /\ IF ok
            THEN /\ limits' = [r \in DOMAIN limits \cup {ToInt(lim_id)} |->
                                 IF r = ToInt(lim_id) THEN <<lim_cur, lim_max>>
                                 ELSE limits[r]]
                 /\ pc' = "rl_next"
                 /\ UNCHANGED stdout
            ELSE /\ stdout' = Append(stdout, [msg |-> "Error setting rlimit for ID",
                                              id  |-> ToLongLong(lim_id)])
                 /\ pc' = "workdir"
                 /\ UNCHANGED limits
    /\ UNCHANGED <<env, argv, rlvars, stderr, sockfd, openFds, exitStatus>>
    /\ UNCHANGED hvars

\* RlSetrlimit storing the limits through an int
RlSetrlimit_TruncatesLimits ==
    /\ pc = "rl_setrlimit"
    /\ \E ok \in BOOLEAN :
         /\ calls' = Append(calls,
                            Call("setrlimit",
                                 <<ToInt(lim_id), lim_cur % 2^(WordBits - 1),
                                   lim_max % 2^(WordBits - 1)>>, ok))
         /\ IF ok
            THEN /\ limits' = [r \in DOMAIN limits \cup {ToInt(lim_id)} |->
                                 IF r = ToInt(lim_id)
                                 THEN <<lim_cur % 2^(WordBits - 1),
                                        lim_max % 2^(WordBits - 1)>>
                                 ELSE limits[r]]
                 /\ UNCHANGED stdout
            ELSE /\ stdout' = Append(stdout, [msg |-> "Error setting rlimit for ID",
                                              id  |-> ToLongLong(lim_id)])
                 /\ UNCHANGED limits
    /\ pc' = "rl_next"
    /\ UNCHANGED <<env, argv, rlvars, stderr, sockfd, openFds, exitStatus>>
    /\ UNCHANGED hvars

\* init.c:41-45
RlSetrlimit ==
    /\ pc = "rl_setrlimit"
    /\ \E ok \in BOOLEAN :
         /\ calls' = Append(calls,
                            Call("setrlimit", <<ToInt(lim_id), lim_cur, lim_max>>, ok))
         /\ IF ok
            THEN /\ limits' = [r \in DOMAIN limits \cup {ToInt(lim_id)} |->
                                 IF r = ToInt(lim_id) THEN <<lim_cur, lim_max>>
                                 ELSE limits[r]]
                 /\ UNCHANGED stdout
            ELSE /\ stdout' = Append(stdout, [msg |-> "Error setting rlimit for ID",
                                              id  |-> ToLongLong(lim_id)])
                 /\ UNCHANGED limits
    /\ pc' = "rl_next"
    /\ UNCHANGED <<env, argv, rlvars, stderr, sockfd, openFds, exitStatus>>
    /\ UNCHANGED hvars

\* init.c:47-51
RlNext ==
    /\ pc = "rl_next"
    /\ IF mem[item] # NUL
       THEN /\ item' = item + 1
            /\ pc' = "rl_loop"
       ELSE /\ pc' = "workdir"
            /\ UNCHANGED item
    /\ UNCHANGED <<env, argv, mem, lim_id, lim_cur, lim_max, calls, stdout,
                   stderr, sockfd, openFds, exitStatus, limits>>
    /\ UNCHANGED hvars

set_rlimits ==
    \/ RlParseId \/ RlCheckId \/ RlSkipEq \/ RlParseCur \/ RlSkipColon
    \/ RlParseMax \/ RlSetrlimit \/ RlNext

main ==
    \/ MountProc \/ Symlink \/ SetHostname \/ Setsid \/ IoctlTiocsctty
    \/ Socket \/ IoctlSiocsifflags \/ CloseSocket \/ GetRlimits
    \/ Chdir \/ Execv \/ MainReturn

Next == main \/ set_rlimits

Spec == Init /\ [][Next]_vars

\* set_rlimits(rlimits) alone, on every input string of RlimitInputs
InitRl ==
    /\ pc = "rl_loop"
    /\ \E s \in RlimitInputs :
         /\ env = [HOSTNAME |-> NULL, KRUN_RLIMITS |-> s,
                   KRUN_WORKDIR |-> NULL, KRUN_INIT |-> NULL]
         /\ mem = s \o <<NUL>>
    /\ argv = << <<"/init.krun">>, NULL >>
    /\ item = 1
    /\ lim_id = -1 /\ lim_cur = -1 /\ lim_max = -1
    /\ calls = <<>>
    /\ stdout = <<>>
    /\ stderr = <<>>
    /\ sockfd = -1
    /\ openFds = {0, 1, 2}
    /\ exitStatus = -1
    /\ limits = <<>>
    /\ HostOff

NextRl == set_rlimits

SpecRl == InitRl /\ [][NextRl]_vars

\* ------------------------------------------------------------ chroot_vm.c
\* what a krun_* configuration call returns on failure: -EINVAL, -ENOMEM
KrunErrors == {-22, -12}

\* errno after a failed getcwd: ENOENT, ERANGE
GetcwdErrnos == {2, 34}

\* the directories the launcher may be started in
Cwds == { <<"/">>, <<"/", "t", "m", "p">> }

\* chroot_vm.c:219, strlen(volume_tail) bytes of it
volume_tail == <<":", "/", "w", "o", "r", "k">>

\* chroot_vm.c:201-216
envp     == << <<"TEST=works">>, NULL >>
port_map == << <<"18000:8000">>, NULL >>
rlimits  == << D1, NULL >>

\* argv[0..argc] of the launcher: NEWROOT COMMAND [ARG...]
HostArgVectors ==
    { << <<"chroot_vm">>, NULL >>,
      << <<"chroot_vm">>, <<"./rootfs">>, NULL >>,
      << <<"chroot_vm">>, <<"./rootfs">>, <<"/bin/true">>, NULL >>,
      << <<"chroot_vm">>, <<"/tmp/rootfs">>, <<"/iwasm">>, <<"hello.wasm">>, NULL >> }

\* the operation, what it returned, and the OS error code of its failure
\* (0 when it succeeded)
HCall(op, args, ret, code) == [op |-> op, args |-> args, ret |-> ret, code |-> code]

\* perror(msg) with the current errno, after the n-th operation of the run
Diag(msg, e, n) == [msg |-> msg, errno |-> e, at |-> n]

\* snprintf(buf, size, "%s%s", a, b): at most size - 1 bytes are stored
Snprintf(size, a, b) ==
    IF size <= 0 THEN <<>>
    ELSE IF Len(a \o b) <= size - 1 THEN a \o b
    ELSE SubSeq(a \o b, 1, size - 1)

HostInit ==
    /\ hpc = "args"
    /\ hargv \in HostArgVectors
    /\ err = 0 /\ ctx_id = 0 /\ errno = 0
    /\ current_path = <<>>
    /\ volume = NULL
    /\ hcalls = <<>> /\ hstdout = <<>> /\ hstderr = <<>>
    /\ hret = 0
    /\ GuestOff

\* chroot_vm.c:226-230
HostCheckArgs ==
    /\ hpc = "args"
    /\ IF Len(hargv) - 1 < 3
       THEN /\ hstdout' = hstdout \o <<"Invalid arguments", "Usage">>
            /\ hret' = -1
            /\ hpc' = "returned"
       ELSE /\ hpc' = "log_level"
            /\ UNCHANGED <<hstdout, hret>>
    /\ UNCHANGED <<hargv, err, ctx_id, errno, current_path, volume, hcalls, hstderr>>
    /\ UNCHANGED gvars

\* The pattern of chroot_vm.c:233-238 and of every `if (err = krun_...)`:
\* the call, and on a non-zero result errno = -err, perror, return -1.
KrunStep(next, op, args, msg) ==
    /\ \E r \in {0} \cup KrunErrors :
         /\ err' = r
         /\ hcalls' = Append(hcalls, HCall(op, args, r, -r))
         /\ IF r # 0
            THEN /\ errno' = -r
                 /\ hstderr' = Append(hstderr, Diag(msg, -r, Len(hcalls) + 1))
                 /\ hret' = -1
                 /\ hpc' = "returned"
            ELSE /\ hpc' = next
                 /\ UNCHANGED <<errno, hstderr, hret>>
    /\ UNCHANGED <<hargv, ctx_id, current_path, volume, hstdout>>
    /\ UNCHANGED gvars

\* chroot_vm.c:233-238
HostSetLogLevel ==
    /\ hpc = "log_level"
    /\ KrunStep("create_ctx", "krun_set_log_level", <<0>>,
                "Error configuring log level")

\* chroot_vm.c:241-246
HostCreateCtx ==
    /\ hpc = "create_ctx"
    /\ \E r \in {0} \cup KrunErrors :
         /\ ctx_id' = r
         /\ hcalls' = Append(hcalls,
                             HCall("krun_create_ctx", <<>>, r, IF r < 0 THEN -r ELSE 0))
         /\ IF r < 0
            THEN /\ errno' = -err
                 /\ hstderr' = Append(hstderr,
                                      Diag("Error creating configuration context",
                                           -err, Len(hcalls) + 1))
                 /\ hret' = -1
                 /\ hpc' = "returned"
            ELSE /\ hpc' = "vm_config"
                 /\ UNCHANGED <<errno, hstderr, hret>>
    /\ UNCHANGED <<hargv, err, current_path, volume, hstdout>>
    /\ UNCHANGED gvars

\* chroot_vm.c:249-253
HostSetVmConfig ==
    /\ hpc = "vm_config"
    /\ KrunStep("root", "krun_set_vm_config", <<ctx_id, 1, 4096>>,
                "Error configuring the number of vCPUs and/or the amount of RAM")

\* chroot_vm.c:256-260
HostSetRoot ==
    /\ hpc = "root"
    /\ KrunStep("getcwd", "krun_set_root", <<ctx_id, hargv[2]>>,
                "Error configuring root path")

\* chroot_vm.c:262-266
HostGetcwd ==
    /\ hpc = "getcwd"
    /\ \/ \E d \in Cwds :
            /\ current_path' = d
            /\ hcalls' = Append(hcalls, HCall("getcwd", <<>>, d, 0))
            /\ hpc' = "malloc"
            /\ UNCHANGED <<errno, hstderr, hret>>
       \/ \E e \in GetcwdErrnos :
            /\ hcalls' = Append(hcalls, HCall("getcwd", <<>>, NULL, e))
            /\ errno' = -err
            /\ hstderr' = Append(hstderr, Diag("Error getting current directory",
                                               -err, Len(hcalls) + 1))
            /\ hret' = -1
            /\ hpc' = "returned"
            /\ UNCHANGED current_path
    /\ UNCHANGED <<hargv, err, ctx_id, volume, hstdout>>
    /\ UNCHANGED gvars

\* chroot_vm.c:268
volume_len == Len(current_path) + Len(volume_tail) + 1

\* chroot_vm.c:268-273: a failed malloc is reported and the run goes on
HostMalloc ==
    /\ hpc = "malloc"
    /\ \/ /\ volume' = <<>>
          /\ hcalls' = Append(hcalls, HCall("malloc", <<volume_len>>, <<>>, 0))
          /\ UNCHANGED <<errno, hstderr>>
       \/ /\ volume' = NULL
          /\ hcalls' = Append(hcalls, HCall("malloc", <<volume_len>>, NULL, 12))
          /\ errno' = -err
          /\ hstderr' = Append(hstderr,
                               Diag("Error allocating memory for volume string",
                                    -err, Len(hcalls) + 1))
    /\ hpc' = "snprintf"
    /\ UNCHANGED <<hargv, err, ctx_id, current_path, hstdout, hret>>
    /\ UNCHANGED gvars

\* chroot_vm.c:275-277: writing through a null volume is undefined: the
\* process faults, or goes on with mapped_volumes[0] still null
HostSnprintf ==
    /\ hpc = "snprintf"
    /\ hcalls' = Append(hcalls, HCall("snprintf", <<volume, volume_len>>, 0, 0))
    /\ IF volume = NULL
       THEN /\ hpc' \in {"crashed", "mapped_volumes"}
            /\ UNCHANGED volume
       ELSE /\ volume' = Snprintf(volume_len, current_path, volume_tail)
            /\ hpc' = "mapped_volumes"
    /\ UNCHANGED <<hargv, err, ctx_id, errno, current_path, hstdout, hstderr, hret>>
    /\ UNCHANGED gvars

\* chroot_vm.c:280-284
HostSetMappedVolumes ==
    /\ hpc = "mapped_volumes"
    /\ KrunStep("port_map", "krun_set_mapped_volumes",
                <<ctx_id, <<volume, NULL>> >>, "Error configuring mapped volumes")

\* HostSetPortMap without the return -1 of chroot_vm.c:290
HostSetPortMap_NoReturn ==
    /\ hpc = "port_map"
    /\ \E r \in {0} \cup KrunErrors :
         /\ err' = r
         /\ hcalls' = Append(hcalls,
                             HCall("krun_set_port_map", <<ctx_id, port_map>>, r, -r))
         /\ IF r # 0
            THEN /\ errno' = -r
                 /\ hstderr' = Append(hstderr, Diag("Error configuring port map",
                                                    -r, Len(hcalls) + 1))
            ELSE UNCHANGED <<errno, hstderr>>
    /\ hpc' = "rlimits"
    /\ UNCHANGED <<hargv, ctx_id, current_path, volume, hstdout, hret>>
    /\ UNCHANGED gvars

\* chroot_vm.c:287-291
HostSetPortMap ==
    /\ hpc = "port_map"
    /\ KrunStep("rlimits", "krun_set_port_map", <<ctx_id, port_map>>,
                "Error configuring port map")

\* chroot_vm.c:294-298
HostSetRlimits ==
    /\ hpc = "rlimits"
    /\ KrunStep("workdir", "krun_set_rlimits", <<ctx_id, rlimits>>,
                "Error configuring rlimits")

\* HostSetWorkdir with krun_set_exec called in its place
HostSetWorkdir_CallsSetExec ==
    /\ hpc = "workdir"
    /\ KrunStep("exec", "krun_set_exec",
                <<ctx_id, hargv[3], SubSeq(hargv, 4, Len(hargv)), envp>>,
                "Error configuring the parameters for the executable to be run")

\* chroot_vm.c:301-305
HostSetWorkdir ==
    /\ hpc = "workdir"
    /\ KrunStep("exec", "krun_set_workdir", <<ctx_id, <<"/">> >>,
                "Error configuring \"/\" as working directory")

\* chroot_vm.c:309-313
HostSetExec ==
    /\ hpc = "exec"
    /\ KrunStep("start_enter", "krun_set_exec",
                <<ctx_id, hargv[3], SubSeq(hargv, 4, Len(hargv)), envp>>,
                "Error configuring the parameters for the executable to be run")

\* chroot_vm.c:317-321: krun_start_enter returns only when it failed
HostStartEnter ==
    /\ hpc = "start_enter"
    /\ \/ /\ hcalls' = Append(hcalls, HCall("krun_start_enter", <<ctx_id>>, NULL, 0))
          /\ hpc' = "entered"
          /\ UNCHANGED <<err, errno, hstderr, hret>>
       \/ \E r \in KrunErrors :
            /\ err' = r
            /\ hcalls' = Append(hcalls, HCall("krun_start_enter", <<ctx_id>>, r, -r))
            /\ errno' = -r
            /\ hstderr' = Append(hstderr, Diag("Error creating the microVM", -r,
                                               Len(hcalls) + 1))
            /\ hret' = -1
            /\ hpc' = "returned"
    /\ UNCHANGED <<hargv, ctx_id, current_path, volume, hstdout>>
    /\ UNCHANGED gvars

HostNext ==
    \/ HostCheckArgs \/ HostSetLogLevel \/ HostCreateCtx \/ HostSetVmConfig
    \/ HostSetRoot \/ HostGetcwd \/ HostMalloc \/ HostSnprintf
    \/ HostSetMappedVolumes \/ HostSetPortMap \/ HostSetRlimits
    \/ HostSetWorkdir \/ HostSetExec \/ HostStartEnter

SpecHost == HostInit /\ [][HostNext]_vars

\* ------------------------------------------------------------ observations
Called(op) == \E i \in 1..Len(calls) : calls[i].op = op

IsSetrlimit(c) == c.op = "setrlimit"

\* the (resource, soft, hard) triples passed to setrlimit, in call order
SetrlimitArgs ==
    LET cs == SelectSeq(calls, IsSetrlimit)
    IN  [i \in 1..Len(cs) |-> cs[i].args]

MountOk     == Len(calls) >= 1 /\ calls[1].op = "mount" /\ calls[1].ok
MountFailed == Len(calls) >= 1 /\ calls[1].op = "mount" /\ ~calls[1].ok

Halted == pc \in {"execed", "exited", "crashed"}

ExecCalls == Cardinality({i \in 1..Len(calls) : calls[i].op = "execv"})

\* the directive grammar  id=soft:hard[;id=soft:hard...]  read by splitting
\* on the delimiters, independently of the positional parser of the code
RECURSIVE Split(_, _)
Split(s, sep) ==
    IF \A i \in 1..Len(s) : s[i] # sep THEN <<s>>
    ELSE LET k == CHOOSE i \in 1..Len(s) :
                     s[i] = sep /\ \A j \in 1..(i - 1) : s[j] # sep
         IN  <<SubSeq(s, 1, k - 1)>> \o Split(SubSeq(s, k + 1, Len(s)), sep)

RECURSIVE Decimal(_)
Decimal(f) ==
    IF f = <<>> THEN 0
    ELSE Decimal(SubSeq(f, 1, Len(f) - 1)) * 10 + DigitVal[f[Len(f)]]

IsNumeral(f) ==
    /\ Len(f) \in 1..8
    /\ \A i \in 1..Len(f) : f[i] \in Digits
    /\ Decimal(f) <= ULLONG_MAX

\* <<id, soft, hard>> as texts, or <<>> when the delimiters are not there
Fields(d) ==
    LET a == Split(d, "=") IN
    IF Len(a) # 2 THEN <<>>
    ELSE LET b == Split(a[2], ":") IN
         IF Len(b) # 2 THEN <<>> ELSE <<a[1], b[1], b[2]>>

WellFormedDirective(d) ==
    /\ Fields(d) # <<>>
    /\ \A k \in 1..3 : IsNumeral(Fields(d)[k])
    /\ Decimal(Fields(d)[1]) <= INT_MAX

WellFormed(s) ==
    \A k \in 1..Len(Split(s, ";")) : WellFormedDirective(Split(s, ";")[k])

Triples(s) ==
    [k \in 1..Len(Split(s, ";")) |->
        LET f == Fields(Split(s, ";")[k])
        IN  <<Decimal(f[1]), Decimal(f[2]), Decimal(f[3])>>]

IsPrefix(a, b) == Len(a) <= Len(b) /\ a = SubSeq(b, 1, Len(a))

\* ------------------------------------------------------------ claims

\* C1: if the mount of /proc fails, the bootstrap prints a diagnostic, exits
\* with a non-zero status, and performs none of the later steps.
C1_MountFailureIsFatal ==
    MountFailed =>
        /\ pc = "exited"
        /\ exitStatus \in 1..255
        /\ stderr = <<"mount(/proc)">>
        /\ Len(calls) = 1
        /\ stdout = <<>>

C1_Witness == MountFailed /\ pc = "exited" /\ exitStatus = 255

\* C2: once the /proc mount has succeeded, every run attempts execv exactly
\* once: a halted process has made exactly one execv call, whatever the
\* other steps returned and whichever variables are present.
C2_ExecAttemptedOnce ==
    /\ ExecCalls <= 1
    /\ (MountOk /\ Halted) => ExecCalls = 1

\* C3: when execv returns, the process does not terminate with status 0.
C3_ExecFailureExitsNonZero ==
    (pc = "exited" /\ Called("execv")) => exitStatus # 0

\* the position of a call in the documented sequence of steps
StepRank(c) ==
    CASE c.op = "mount"       -> 1
      [] c.op = "symlink"     -> 2
      [] c.op = "sethostname" -> 3
      [] c.op = "setsid"      -> 4
      [] c.op = "ioctl"       -> IF c.args[2] = "TIOCSCTTY" THEN 5 ELSE 7
      [] c.op = "socket"      -> 6
      [] c.op = "close"       -> 8
      [] c.op = "setrlimit"   -> 9
      [] c.op = "chdir"       -> 10
      [] c.op = "execv"       -> 11

\* C4: the steps that are performed occur in the order mount, symlink,
\* sethostname, setsid, TIOCSCTTY, socket, SIOCSIFFLAGS, close, resource
\* limits, chdir, execv; none is performed twice (the resource-limit step
\* is the run of consecutive setrlimit calls).
C4_StepsInOrder ==
    \A i, j \in 1..Len(calls) :
        i < j => \/ StepRank(calls[i]) < StepRank(calls[j])
                 \/ /\ calls[i].op = "setrlimit"
                    /\ calls[j].op = "setrlimit"

C4_Witness ==
    /\ pc = "execed"
    /\ {StepRank(calls[i]) : i \in 1..Len(calls)} = 1..11

\* C5: for a well-formed string of n >= 1 directives, set_rlimits returns
\* after exactly n setrlimit calls, in the order written, each with the id,
\* soft and hard limit of its directive; it never faults and every call made
\* on the way is the next directive.
C5_WellFormedApplied ==
    WellFormed(env.KRUN_RLIMITS) =>
        /\ pc # "crashed"
        /\ IsPrefix(SetrlimitArgs, Triples(env.KRUN_RLIMITS))
        /\ pc = "workdir" => SetrlimitArgs = Triples(env.KRUN_RLIMITS)

C5_Witness ==
    /\ pc = "workdir"
    /\ env.KRUN_RLIMITS = D1 \o <<";">> \o D2
    /\ SetrlimitArgs = << <<6, 4096, 8192>>, <<7, 10, 20>> >>

\* a string whose last directive is id=soft with the hard field missing
MissingHard(s) ==
    LET ds == Split(s, ";")
        a  == Split(ds[Len(ds)], "=")
    IN  /\ \A k \in 1..(Len(ds) - 1) : WellFormedDirective(ds[k])
        /\ Len(a) = 2 /\ IsNumeral(a[1]) /\ IsNumeral(a[2])

\* C6: for a string whose directive lacks the hard limit ("6=4096"),
\* set_rlimits makes no setrlimit call for that directive, does not crash
\* and reads no byte beyond the terminator.
C6_MissingHardNotApplied ==
    MissingHard(env.KRUN_RLIMITS) =>
        /\ pc # "crashed"
        /\ Len(mem) <= Len(env.KRUN_RLIMITS) + 1
        /\ Len(SetrlimitArgs) <= Len(Split(env.KRUN_RLIMITS, ";")) - 1

\* the index of the first directive whose id field is not a decimal number,
\* 0 when there is none
FirstBadId(s) ==
    LET ds  == Split(s, ";")
        bad == {k \in 1..Len(ds) : /\ Len(Split(ds[k], "=")) >= 2
                                   /\ ~IsNumeral(Split(ds[k], "=")[1])}
    IN  IF bad = {} THEN 0
        ELSE CHOOSE k \in bad : \A j \in bad : k <= j

\* C7: at a directive whose id field is malformed set_rlimits stops: no
\* setrlimit call is made for that directive or any later one.
C7_MalformedIdStops ==
    FirstBadId(env.KRUN_RLIMITS) > 0 =>
        Len(SetrlimitArgs) <= FirstBadId(env.KRUN_RLIMITS) - 1

Printed(m) == \E i \in 1..Len(stdout) : stdout[i].msg = m

\* C8: a failing setrlimit does not stop set_rlimits: for a well-formed
\* string all directives are attempted in order whatever subset of the calls
\* fails, and the bootstrap goes on to chdir and execv.
C8_ApplyFailureContinues ==
    (MountOk /\ WellFormed(env.KRUN_RLIMITS)) =>
        /\ pc # "crashed"
        /\ pc \in {"workdir", "exec", "return", "execed", "exited"} =>
              SetrlimitArgs = Triples(env.KRUN_RLIMITS)
        /\ pc \in {"return", "execed", "exited"} =>
              /\ Called("execv")
              /\ env.KRUN_WORKDIR # NULL => Called("chdir")

C8_Witness ==
    /\ pc = "execed"
    /\ Called("chdir")
    /\ Len(SetrlimitArgs) = 2
    /\ \E i \in 1..Len(calls) :
          /\ calls[i].op = "setrlimit" /\ ~calls[i].ok
          /\ calls[i + 1].op = "setrlimit"

\* C9: when set_rlimits stops at an invalid id, the stop makes no setrlimit
\* call and from then on no limit that was set is changed.
C9_StopKeepsApplied ==
    [][((pc = "rl_check_id" /\ lim_id = ULLONG_MAX) \/ Printed("Invalid rlimit ID"))
          => (limits' = limits /\ SetrlimitArgs' = SetrlimitArgs)]_vars

C9_Witness ==
    /\ Printed("Invalid rlimit ID")
    /\ pc = "execed"
    /\ 6 \in DOMAIN limits
    /\ limits[6] = <<4096, 8192>>

\* the position of the program text: the steps of main in order
PcRank ==
    CASE pc = "mount"        -> 1
      [] pc = "symlink"      -> 2
      [] pc = "hostname"     -> 3
      [] pc = "setsid"       -> 4
      [] pc = "tiocsctty"    -> 5
      [] pc = "socket"       -> 6
      [] pc = "siocsifflags" -> 7
      [] pc = "close"        -> 8
      [] pc = "rlimits"      -> 9
      [] pc = "workdir"      -> 11
      [] pc = "exec"         -> 12
      [] pc \in {"return", "execed"} -> 13
      [] pc = "exited"       -> IF MountFailed THEN 1 ELSE 13
      [] OTHER               -> 10

C11_ArgvPassedThrough ==
    [][pc = "exec" =>
         LET c    == calls'[Len(calls')]
             path == IF env.KRUN_INIT = NULL THEN <<"/iwasm">> ELSE env.KRUN_INIT
         IN  /\ Len(calls') = Len(calls) + 1
             /\ c.op = "execv"
             /\ c.args[1] = path
             /\ Len(c.args[2]) = Len(argv)
             /\ c.args[2][1] = c.args[1]
             /\ \A k \in 2..Len(argv) : c.args[2][k] = argv[k]
             /\ c.args[2][Len(argv)] = NULL]_vars

C11_Witness ==
    /\ pc = "execed"
    /\ env.KRUN_INIT = <<"/bin/true">>
    /\ calls[Len(calls)].args =
          << <<"/bin/true">>,
             << <<"/bin/true">>, <<"hello.wasm">>, <<"-v">>, NULL >> >>

\* ------------------------------------------------------------ launcher claims
KrunOps ==
    {"krun_set_log_level", "krun_create_ctx", "krun_set_vm_config",
     "krun_set_root", "krun_set_mapped_volumes", "krun_set_port_map",
     "krun_set_rlimits", "krun_set_workdir", "krun_set_exec", "krun_start_enter"}

IsKrun(c) == c.op \in KrunOps

KrunFailed(c) == IsKrun(c) /\ c.code # 0

\* C12: the first failing krun_* operation aborts the launch: no krun_*
\* operation is invoked after one that failed, the launcher has then
\* returned -1, and krun_start_enter is reached only when every earlier
\* krun_* operation succeeded.
C12_FailFast ==
    \A i \in 1..Len(hcalls) :
       /\ KrunFailed(hcalls[i]) =>
             /\ \A j \in (i + 1)..Len(hcalls) : ~IsKrun(hcalls[j])
             /\ hpc = "returned"
             /\ hret = -1
       /\ hcalls[i].op = "krun_start_enter" =>
             \A j \in 1..(i - 1) : ~KrunFailed(hcalls[j])

C12_Witness ==
    /\ hpc = "returned"
    /\ hret = -1
    /\ Len(hcalls) = 9
    /\ hcalls[9].op = "krun_set_port_map"
    /\ hcalls[9].ret = -22
    /\ \A i \in 1..8 : hcalls[i].code = 0

\* the diagnostic of each step
DiagOf(op) ==
    CASE op = "krun_set_log_level"      -> "Error configuring log level"
      [] op = "krun_create_ctx"         -> "Error creating configuration context"
      [] op = "krun_set_vm_config"      ->
            "Error configuring the number of vCPUs and/or the amount of RAM"
      [] op = "krun_set_root"           -> "Error configuring root path"
      [] op = "getcwd"                  -> "Error getting current directory"
      [] op = "malloc"                  -> "Error allocating memory for volume string"
      [] op = "krun_set_mapped_volumes" -> "Error configuring mapped volumes"
      [] op = "krun_set_port_map"       -> "Error configuring port map"
      [] op = "krun_set_rlimits"        -> "Error configuring rlimits"
      [] op = "krun_set_workdir"        ->
            "Error configuring \"/\" as working directory"
      [] op = "krun_set_exec"           ->
            "Error configuring the parameters for the executable to be run"
      [] op = "krun_start_enter"        -> "Error creating the microVM"
      [] OTHER                          -> "none"

\* C13: every diagnostic names the step that failed and carries the error
\* code of that same step, context creation and getcwd included.
C13_DiagnosticCarriesCause ==
    \A k \in 1..Len(hstderr) :
       LET c == hcalls[hstderr[k].at]
       IN  /\ c.code # 0
           /\ hstderr[k].msg = DiagOf(c.op)
           /\ hstderr[k].errno = c.code

\* C14: a failing run reports exactly one failing step: at most one
\* diagnostic is emitted, and no launch step is executed after it.
C14_OneDiagnosticThenStop ==
    /\ Len(hstderr) <= 1
    /\ Len(hstderr) = 1 => hstderr[1].at = Len(hcalls)

BuilderOrder ==
    <<"krun_create_ctx", "krun_set_vm_config", "krun_set_root",
      "krun_set_mapped_volumes", "krun_set_port_map", "krun_set_rlimits",
      "krun_set_workdir", "krun_set_exec", "krun_start_enter">>

IsBuilderCall(c) == \E k \in 1..Len(BuilderOrder) : c.op = BuilderOrder[k]

BuilderCalls ==
    LET cs == SelectSeq(hcalls, IsBuilderCall)
    IN  [i \in 1..Len(cs) |-> cs[i].op]

\* C15: the builder operations are invoked in the order create,
\* krun_set_vm_config, set_root, set_volumes, set_port_map, set_rlimits,
\* set_workdir, set_exec, start_and_enter: the calls of a run are a prefix
\* of that sequence, each made at most once, and start_and_enter is the last
\* operation of the run.
C15_BuilderOrder ==
    /\ IsPrefix(BuilderCalls, BuilderOrder)
    /\ \A i \in 1..Len(hcalls) :
          hcalls[i].op = "krun_start_enter" => i = Len(hcalls)

C15_Witness ==
    /\ hpc = "entered"
    /\ BuilderCalls = BuilderOrder

\* ------------------------------------------------------------ parser claims
\* C16: a soft or hard limit written as the largest unsigned long long is
\* passed to setrlimit as exactly that value, and every smaller soft or hard
\* value is passed unchanged.
C16_MaxValuePreserved ==
    WellFormed(env.KRUN_RLIMITS) =>
       /\ \A k \in 1..Len(SetrlimitArgs) :
             LET f == Fields(Split(env.KRUN_RLIMITS, ";")[k])
             IN  \A n \in 2..3 :
                    /\ SetrlimitArgs[k][n] = Decimal(f[n])
                    /\ f[n] = Numeral(2^WordBits - 1) =>
                          SetrlimitArgs[k][n] = 2^WordBits - 1
       /\ pc = "workdir" =>
             Len(SetrlimitArgs) = Len(Split(env.KRUN_RLIMITS, ";"))

C16_Witness ==
    /\ pc = "workdir"
    /\ env.KRUN_RLIMITS =
          Dir(N6, Numeral(2^WordBits - 2), Numeral(2^WordBits - 1))
    /\ SetrlimitArgs = << <<6, 2^WordBits - 2, 2^WordBits - 1>> >>

\* C17: the read position never moves past the terminator of the input
\* string, and the unconditional one-byte skips are taken only from a
\* position that holds a non-terminator byte.
C17_NeverPastTerminator ==
    pc # "off" /\ env.KRUN_RLIMITS # NULL /\ item > 0 =>
       /\ item <= Len(env.KRUN_RLIMITS) + 1
       /\ pc \in {"rl_skip_eq", "rl_skip_colon"} => mem[item] # NUL

\* the well-formed list in front of one trailing ';', or NULL
BeforeTrailingSemicolon(s) ==
    IF Len(s) >= 2 /\ s[Len(s)] = ";" /\ WellFormed(SubSeq(s, 1, Len(s) - 1))
    THEN SubSeq(s, 1, Len(s) - 1)
    ELSE NULL

\* C18: for the empty string and for a well-formed list followed by one
\* trailing ';', the only setrlimit calls are those of the directives
\* actually written.
C18_OnlyWrittenDirectives ==
    /\ env.KRUN_RLIMITS = <<>> => SetrlimitArgs = <<>>
    /\ BeforeTrailingSemicolon(env.KRUN_RLIMITS) # NULL =>
          IsPrefix(SetrlimitArgs, Triples(BeforeTrailingSemicolon(env.KRUN_RLIMITS)))

\* C19: set_rlimits terminates on every input: the read position never
\* moves back, the loop completes at most as many iterations as the string
\* has bytes, and it ends at one of its two breaks (not in a fault).
C19_LoopBoundedByInput ==
    /\ pc # "crashed"
    /\ Len(SetrlimitArgs) <= Len(env.KRUN_RLIMITS)

\* C20: the loopback socket is closed before the resource-limit step on
\* every path where it was opened, whatever the SIOCSIFFLAGS request
\* returned; a failed socket() is followed by neither the request nor
\* close; no descriptor of this step is open at execv.
C20_SocketClosed ==
    LET sock == {i \in 1..Len(calls) : calls[i].op = "socket"}
    IN  /\ PcRank >= 9 /\ MountOk => openFds = {0, 1, 2}
        /\ \A i \in sock :
              IF calls[i].ok
              THEN PcRank >= 9 =>
                      /\ calls[i + 1].op = "ioctl"
                      /\ calls[i + 2] = Call("close", <<3>>, TRUE)
              ELSE \A j \in 1..Len(calls) :
                      /\ calls[j].op # "close"
                      /\ calls[j].op = "ioctl" => calls[j].args[2] # "SIOCSIFFLAGS"
        /\ Called("execv") => openFds = {0, 1, 2}

C20_Witness ==
    /\ pc = "execed"
    /\ \E i \in 1..Len(calls) :
          /\ calls[i].op = "ioctl" /\ calls[i].args[2] = "SIOCSIFFLAGS"
          /\ ~calls[i].ok
          /\ calls[i + 1].op = "close"
    /\ openFds = {0, 1, 2}
====
